---- MODULE Spec2Model ----
(***************************************************************************)
(* A model of libposix's process handles (src/process.cc): the PID slot of *)
(* worker_process / worker_daemon handles, the parent's table of forked    *)
(* children as the kernel keeps it, the process-wide SIGCHLD disposition,  *)
(* and every operation of the handles on them (specification Spec); and of *)
(* its descriptor handles (src/auto_fd.cc, src/auto_pipe.cc): the slots of *)
(* auto_fd and auto_pipe objects, the process's descriptor table, and      *)
(* every operation of the handles on it (specifications FdSpec for auto_fd *)
(* and PipeSpec for auto_pipe); and of the pipe shared by a parent and its  *)
(* forked child in auto_pipe_tests() (specification ForkSpec); and of its   *)
(* module-symbol handles (src/module.cc): the two pointers of modsymbol     *)
(* objects and the dynamic linker's reference counts (specification         *)
(* ModSpec). LeakSpec and JoinSpec are Spec restricted to the operations    *)
(* of worker_process that keep a child, and to start and join().            *)
(***************************************************************************)
EXTENDS Integers, FiniteSets, Sequences, TLC

\* ------------------------------------------------------------------ bounds
NumHandles == 2      \* handle objects alive at one time
MaxPid     == 2      \* the kernel hands out PIDs 1..MaxPid and reuses them
MaxForks   == 2      \* children forked in one run
MaxSleeps  == 1      \* sleeps of one join() that are followed
NumFdh     == 2      \* auto_fd objects alive at one time
NumPipes   == 2      \* auto_pipe objects alive at one time
MaxFds     == 3      \* descriptors the process may have open (RLIMIT_NOFILE), FdSpec
MaxPipeFds == 4      \* the same limit in PipeSpec and, at most, in ForkSpec
MaxRead    == 3      \* bytes the parent asks for in one read()
MaxJoinSleeps == 9   \* sleeps of one join() that are followed in JoinSpec
NumMods    == 2      \* modsymbol objects alive at one time
NumLibs    == 2      \* shared libraries that exist on disk
NumSyms    == 2      \* symbol names a caller may ask for

\* ------------------------------------------------------- program constants
delay_max  == 1000   \* join(): static constexpr std::size_t delay_max
delay_init == 10     \* join(): std::size_t delay_ms = 10
Empty      == -1     \* worker_process::child_pid{-1}
MsgLen     == 5      \* write(q.get_wfd(), "hello", 5)

Handles  == 1..NumHandles
Pids     == 1..MaxPid
Children == 1..MaxForks

VARIABLES
    kind,        \* kind[h]: "process" (worker_process), "daemon" (worker_daemon), "none" (no object)
    child_pid,   \* child_pid[h]: the PID slot, Empty (-1) or a PID
    child_of,    \* history: the child (1..MaxForks) whose fork() gave the slot its value, 0 if none
    joiner,      \* the handle whose join() is sleeping, 0 if none
    delay_ms,    \* join()'s local delay_ms
    sleeps,      \* sleeps the join() in progress has completed
    child,       \* child[c]: the kernel's view of the c-th forked child
    zombies,     \* SIGCHLD disposition: TRUE is SIG_DFL, FALSE is SIG_IGN|SA_NOCLDWAIT
    forks,       \* children forked so far
    ev,          \* what the operation that just returned did and returned
    fd,          \* fd[h]: the slot of auto_fd object h, -1 or an integer
    fd_live,     \* the auto_fd objects that exist
    read_fd,     \* read_fd[p]: the slot of the read end of auto_pipe object p
    write_fd,    \* write_fd[p]: the slot of its write end
    pipe_live,   \* the auto_pipe objects that exist
    fdtab,       \* fdtab[d]: the open file description descriptor d names, 0 if d is closed
    given,       \* history: the descriptors handed to objects and neither released nor closed since
    fev,         \* what the descriptor operation that just returned did and returned
    pc,          \* pc.parent, pc.child: where the two processes of auto_pipe_tests() are
    ctab,        \* the forked child's descriptor table
    cobj,        \* the forked child's objects: cobj.p and cobj.q, each <<read_fd, write_fd>>
    chan,        \* the kernel's pipe: its two open file descriptions and the bytes in it
    io,          \* io.sent: bytes the child wrote; io.rcvd: bytes the parent read; io.eof: a read returned 0
    handle,      \* handle[m]: the library handle of modsymbol object m, 0 (nullptr) or a library
    ptr,         \* ptr[m]: its symbol pointer, 0 (nullptr) or an address
    mod_live,    \* the modsymbol objects that exist
    refs,        \* refs[l]: the dynamic linker's reference count of library l, 0 if not loaded
    mev          \* what the module operation that just returned did and returned

\* The state of the process handles, and that of the descriptor handles.
pvars == <<kind, child_pid, child_of, joiner, delay_ms, sleeps, child, zombies, forks, ev>>
fvars == <<fd, fd_live, read_fd, write_fd, pipe_live, fdtab, given, fev>>
\* The state of the two processes of the pipe test besides the parent's
\* objects and table.
xvars == <<pc, ctab, cobj, chan, io>>

\* The state of the module-symbol handles and of the dynamic linker.
mvars == <<handle, ptr, mod_live, refs, mev>>

vars == <<pvars, fvars, xvars, mvars>>

\* ------------------------------------------------------------ the kernel
\* A child that was never forked.
NoChild == [st |-> "none", pid |-> 0, sess |-> FALSE, term |-> FALSE]

\* States in which a child still occupies its PID.
Exists == {"setsid", "task", "zombie"}
\* States in which a child is executing.
Executing == {"setsid", "task"}
\* States in which a child has terminated.
Terminated == {"zombie", "reaped"}

\* The child that holds PID pid in table C, 0 if no child of the parent does.
TargetOf(C, pid) ==
    IF \E c \in Children : C[c].pid = pid /\ C[c].st \in Exists
    THEN CHOOSE c \in Children : C[c].pid = pid /\ C[c].st \in Exists
    ELSE 0

\* PIDs fork() may return.
FreePids(C) == Pids \ {C[c].pid : c \in {d \in Children : C[d].st \in Exists}}

\* The table entry of a child once it has been waited for: its PID is free
\* again (term stays, as the history of a SIGTERM having reached it).
Reap(C, c) ==
    [C EXCEPT ![c] = [st |-> "reaped", pid |-> 0, sess |-> FALSE, term |-> C[c].term]]

\* kill(pid, SIGTERM): the signal is pending for whatever executing child
\* holds the PID (a child that ignores or masks it is one it never terminates).
sys_kill(C, pid) ==
    LET t == TargetOf(C, pid) IN
    IF t # 0 /\ C[t].st \in Executing
    THEN [C EXCEPT ![t].term = TRUE]
    ELSE C

\* waitpid(pid, nullptr, WNOHANG): the return value.
sys_waitpid_ret(C, pid) ==
    LET t == TargetOf(C, pid) IN
    IF t = 0 THEN -1 ELSE IF C[t].st = "zombie" THEN pid ELSE 0

\* waitpid(pid, nullptr, WNOHANG): the table afterwards.
sys_waitpid(C, pid) ==
    LET t == TargetOf(C, pid) IN
    IF t # 0 /\ C[t].st = "zombie" THEN Reap(C, t) ELSE C

\* The record of one system call a handle makes: the PID passed, the state at
\* the call of the child holding that PID ("none": no child does), and whether
\* that child is own, the child the handle holds, or another one.
Call(fn, C, pid, own) ==
    LET t == TargetOf(C, pid) IN
    [fn |-> fn, pid |-> pid, st |-> IF t = 0 THEN "none" ELSE C[t].st,
     mine |-> t # 0 /\ t = own]

\* ------------------------------------------------------------ observation
NoEv == [op |-> "none", h |-> 0, src |-> 0, ret |-> "void", srcpre |-> Empty,
         calls |-> <<>>, ms |-> 0, own |-> 0, was |-> NoChild]

Ev(op, h, ret, calls) ==
    [NoEv EXCEPT !.op = op, !.h = h, !.ret = ret, !.calls = calls]

\* The state of the child handle h holds by its history.
OwnSt(h) == IF child_of[h] = 0 THEN "none" ELSE child[child_of[h]].st

\* The observation of an operation that lets go of, or hands over, the child
\* of handle s: which child that is and its table entry before the operation.
EvOf(op, h, s) ==
    [Ev(op, h, "void", <<>>) EXCEPT !.src = s, !.srcpre = child_pid[s],
        !.own = child_of[s],
        !.was = IF child_of[s] = 0 THEN NoChild ELSE child[child_of[s]]]

\* The parent is one thread (spec section 5): while its join() sleeps it
\* calls nothing else on a handle. Children run meanwhile, and the static
\* operations may (from a signal handler).
Busy(h) == joiner # 0

live == [h \in Handles |-> kind[h] # "none"]
Workers == {h \in Handles : kind[h] = "process"}
Daemons == {h \in Handles : kind[h] = "daemon"}

\* ------------------------------------------------- the descriptor table
Fdhs     == 1..NumFdh
PipeIds  == 1..NumPipes
\* The descriptor numbers of a process that may have n descriptors open; the
\* table of a process maps each to the open file description it names.
FdsOf(n) == 0..(n - 1)
Fds      == FdsOf(IF MaxFds > MaxPipeFds THEN MaxFds ELSE MaxPipeFds)

\* Descriptor d is open in table T.
IsOpen(T, d) == d \in DOMAIN T /\ T[d] # 0

\* The descriptors that are free in table T.
FreeFds(T) == {d \in DOMAIN T : T[d] = 0}

\* The lowest member of a non-empty set of integers.
Lowest(S) == CHOOSE d \in S : \A e \in S : d <= e

\* An open file description no descriptor of table T names.
FreshOfd(T) == Lowest((1..Cardinality(DOMAIN T)) \ {T[d] : d \in DOMAIN T})

\* open(), mkstemp(): the descriptor returned, the lowest free one, or -1
\* when the table is full (EMFILE); and the table afterwards.
sys_open_ret(T) == IF FreeFds(T) = {} THEN -1 ELSE Lowest(FreeFds(T))
sys_open(T) ==
    IF FreeFds(T) = {} THEN T ELSE [T EXCEPT ![Lowest(FreeFds(T))] = FreshOfd(T)]

\* dup(i): -1 when i is not an open descriptor (EBADF) or the table is full
\* (EMFILE), otherwise the lowest free descriptor, which then names the open
\* file description i names.
sys_dup_ret(T, i) ==
    IF ~IsOpen(T, i) \/ FreeFds(T) = {} THEN -1 ELSE Lowest(FreeFds(T))
sys_dup(T, i) ==
    IF sys_dup_ret(T, i) = -1 THEN T ELSE [T EXCEPT ![sys_dup_ret(T, i)] = T[i]]

\* ::close(d): d is closed if it was open (EBADF otherwise).
sys_close(T, d) == IF IsOpen(T, d) THEN [T EXCEPT ![d] = 0] ELSE T

\* The record of one descriptor system call: the descriptor passed, whether
\* it was open at the call, and the value returned.
FdCall(fn, T, d, ret) == [fn |-> fn, fd |-> d, open |-> IsOpen(T, d), ret |-> ret]

\* What the last descriptor operation did: the object h it was called on, the
\* source object src of a copy or a move, the integer passed and the integer
\* returned, the slots of h and src before (for pipes, <<read end, write
\* end>>), the system calls made and the table before.
NoFev == [op |-> "none", h |-> 0, src |-> 0, arg |-> -1, ret |-> -1,
          pre |-> -1, srcpre |-> -1, ppre |-> <<-1, -1>>, psrc |-> <<-1, -1>>,
          calls |-> <<>>, was |-> <<>>]

\* No object exists, in a process that may have n descriptors open and has
\* descriptors 0..k-1 open already (its standard streams), each on a file of
\* its own.
FdInitOpen(n, k) ==
    /\ fd = [h \in Fdhs |-> -1]
    /\ fd_live = {}
    /\ read_fd = [p \in PipeIds |-> -1]
    /\ write_fd = [p \in PipeIds |-> -1]
    /\ pipe_live = {}
    /\ fdtab = [d \in FdsOf(n) |-> IF d < k THEN d + 1 ELSE 0]
    /\ given = {}
    /\ pc = [parent |-> "construct", child |-> "none"]
    /\ ctab = [d \in FdsOf(n) |-> 0]
    /\ cobj = [p |-> <<-1, -1>>, q |-> <<-1, -1>>]
    /\ chan = [rofd |-> 0, wofd |-> 0, buf |-> <<>>]
    /\ io = [sent |-> <<>>, rcvd |-> <<>>, eof |-> FALSE]
    /\ fev = NoFev

\* The same with no descriptor open.
FdInit(n) == FdInitOpen(n, 0)

\* ------------------------------------------------------ the dynamic linker
Mods == 1..NumMods
Libs == 1..NumLibs
Syms == 1..NumSyms
\* The paths a caller may name: a library, or 0, a path where there is none.
Paths == 0..NumLibs
\* The symbols library l defines: library l defines the symbols 1..l.
Exports(l) == 1..l
\* The address of symbol s of library l, which is never null.
SymAddr(l, s) == l * (NumSyms + 1) + s

\* dlopen(from, RTLD_NOW): the handle of the library, which is the same
\* for every dlopen of one library, or 0 (NULL) when there is no library at
\* the path or, ok being FALSE, when the linker cannot load it.
sys_dlopen_ret(from, ok) == IF from \in Libs /\ ok THEN from ELSE 0
\* The reference counts after dlopen: a successful one counts a reference.
sys_dlopen(R, from, ok) ==
    IF sys_dlopen_ret(from, ok) = 0 THEN R
    ELSE [R EXCEPT ![from] = R[from] + 1]
\* dlsym(h, sym): the address of the symbol, 0 (NULL) if h defines none.
sys_dlsym_ret(h, sym) == IF sym \in Exports(h) THEN SymAddr(h, sym) ELSE 0
\* dlclose(h): 0 and one reference fewer, the library being unloaded with
\* its last reference; nonzero when h is not the handle of a loaded library.
sys_dlclose_ret(R, h) == IF h \in Libs /\ R[h] > 0 THEN 0 ELSE -1
sys_dlclose(R, h) ==
    IF sys_dlclose_ret(R, h) = 0 THEN [R EXCEPT ![h] = R[h] - 1] ELSE R
\* The record of one call of the dynamic linker.
DlCall(fn, h, ret) == [fn |-> fn, h |-> h, ret |-> ret]

\* No module operation has returned yet.
NoMev == [op |-> "none", prev |-> "none", m |-> 0, src |-> 0, from |-> 0, sym |-> 0,
          what |-> "", ret |-> 0, calls |-> <<>>, hpre |-> 0, ppre |-> 0,
          rpre |-> [l \in Libs |-> 0]]

\* modsymbol: const void* handle{nullptr}; void* ptr{nullptr}; no object
\* exists and no library is loaded.
ModInit ==
    /\ handle = [m \in Mods |-> 0]
    /\ ptr = [m \in Mods |-> 0]
    /\ mod_live = {}
    /\ refs = [l \in Libs |-> 0]
    /\ mev = NoMev

\* ---------------------------------------------------------------- Init
ProcInit ==
    /\ kind = [h \in Handles |-> "none"]
    /\ child_pid = [h \in Handles |-> Empty]
    /\ child_of = [h \in Handles |-> 0]
    /\ joiner = 0
    /\ delay_ms = delay_init
    /\ sleeps = 0
    /\ child = [c \in Children |-> NoChild]
    /\ zombies = TRUE
    /\ forks = 0
    /\ ev = NoEv

Init == ProcInit /\ FdInit(MaxFds) /\ ModInit

\* ----------------------------------------------------------- operations
\* worker_process() = default, and worker_daemon's: an Empty handle.
worker_process_ctor(h) ==
    /\ ~live[h] /\ ~Busy(h)
    /\ \E k \in {"process", "daemon"} : kind' = [kind EXCEPT ![h] = k]
    /\ child_pid' = [child_pid EXCEPT ![h] = Empty]
    /\ child_of' = [child_of EXCEPT ![h] = 0]
    /\ ev' = NoEv
    /\ UNCHANGED <<joiner, delay_ms, sleeps, child, zombies, forks>>
    /\ UNCHANGED <<fvars, xvars, mvars>>

\* get_id(): child_pid > 0 ? child_pid : 0.
get_id(h) == IF child_pid[h] > 0 THEN child_pid[h] ELSE 0

\* A release() that forgets to empty the slot.
release_keeps_pid(slot, h) == slot

\* release(): child_pid = -1.
release(slot, h) == [slot EXCEPT ![h] = Empty]

\* is_running() on a slot value pid: the value returned, the slot and the
\* table afterwards, and the system calls made (own: the handle's child).
is_running_of(pid, C, own) ==
    IF Empty = pid
    THEN [ret |-> FALSE, slot |-> pid, tbl |-> C, calls |-> <<>>]
    ELSE LET p == sys_waitpid_ret(C, pid) IN
         IF p = pid
         THEN [ret |-> FALSE, slot |-> Empty, tbl |-> sys_waitpid(C, pid),
               calls |-> <<Call("waitpid", C, pid, own)>>]
         ELSE [ret |-> TRUE, slot |-> pid, tbl |-> sys_waitpid(C, pid),
               calls |-> <<Call("waitpid", C, pid, own)>>]

\* stop() on a slot value pid: the table afterwards and the system calls made.
stop_of(pid, C, own) ==
    IF Empty # pid
    THEN [tbl |-> sys_kill(C, pid), calls |-> <<Call("kill", C, pid, own)>>]
    ELSE [tbl |-> C, calls |-> <<>>]

BoolStr(b) == IF b THEN "true" ELSE "false"

\* bool is_running() const.
is_running(h) ==
    /\ live[h] /\ ~Busy(h)
    /\ LET r == is_running_of(child_pid[h], child, child_of[h]) IN
       /\ child_pid' = [child_pid EXCEPT ![h] = r.slot]
       /\ child_of' = [child_of EXCEPT ![h] = IF r.slot = Empty THEN 0 ELSE @]
       /\ child' = r.tbl
       /\ ev' = Ev("is_running", h, BoolStr(r.ret), r.calls)
    /\ UNCHANGED <<kind, joiner, delay_ms, sleeps, zombies, forks>>
    /\ UNCHANGED <<fvars, xvars, mvars>>

\* void stop() const.
stop(h) ==
    /\ live[h] /\ ~Busy(h)
    /\ LET r == stop_of(child_pid[h], child, child_of[h]) IN
       /\ child' = r.tbl
       /\ ev' = Ev("stop", h, "void", r.calls)
    /\ UNCHANGED <<kind, child_pid, child_of, joiner, delay_ms, sleeps, zombies, forks>>
    /\ UNCHANGED <<fvars, xvars, mvars>>

\* The child fork() creates in table C: the c-th child, with PID pid, first
\* executing at position st.
fork_of(C, c, pid, st) ==
    [C EXCEPT ![c] = [st |-> st, pid |-> pid, sess |-> FALSE, term |-> FALSE]]

ForkCall(pid, st) == [fn |-> "fork", pid |-> pid, st |-> st, mine |-> pid # -1]

\* start() of either variant: stop(), then child_pid = fork(); first is the
\* child's first position ("task", or "setsid" in the daemon variant).
start_of(h, first) ==
    /\ live[h] /\ ~Busy(h)
    /\ LET s == stop_of(child_pid[h], child, child_of[h]) IN
       \/ \* case -1: fork failed, child_pid holds -1 and the error is thrown
          /\ child_pid' = [child_pid EXCEPT ![h] = Empty]
          /\ child_of' = [child_of EXCEPT ![h] = 0]
          /\ child' = s.tbl
          /\ forks' = forks
          /\ ev' = Ev("start", h, "throw", s.calls \o <<ForkCall(-1, "none")>>)
       \/ \* default: the parent records the new child's PID
          /\ forks < MaxForks
          /\ \E p \in FreePids(s.tbl) :
                /\ child_pid' = [child_pid EXCEPT ![h] = p]
                /\ child_of' = [child_of EXCEPT ![h] = forks + 1]
                /\ child' = fork_of(s.tbl, forks + 1, p, first)
                /\ forks' = forks + 1
                /\ ev' = Ev("start", h, "void", s.calls \o <<ForkCall(p, first)>>)
    /\ UNCHANGED <<kind, joiner, delay_ms, sleeps, zombies>>
    /\ UNCHANGED <<fvars, xvars, mvars>>

\* void worker_process::start(task) const.
start(h) == h \in Workers /\ start_of(h, "task")

\* void worker_daemon::start(task) const: the child calls setsid() first.
worker_daemon_start(h) == h \in Daemons /\ start_of(h, "setsid")

\* detach() / release() called on a handle.
detach(h) ==
    /\ live[h] /\ ~Busy(h)
    /\ child_pid' = release(child_pid, h)
    /\ child_of' = [child_of EXCEPT ![h] = 0]
    /\ ev' = EvOf("release", h, h)
    /\ UNCHANGED <<kind, joiner, delay_ms, sleeps, child, zombies, forks>>
    /\ UNCHANGED <<fvars, xvars, mvars>>

\* A move that copies the PID and leaves the source holding it too.
move_of_copies(slot, t, s) == [slot EXCEPT ![t] = slot[s]]

\* The slots after child_pid = p.child_pid; p.release(), with t the target
\* and s the source p.
move_of(slot, t, s) == release([slot EXCEPT ![t] = slot[s]], s)

\* The histories that go with the slots after a move.
move_hist(hist, t, s) == [[hist EXCEPT ![t] = hist[s]] EXCEPT ![s] = 0]

SameKind(t, s) == kind[t] = kind[s]

\* worker_process(worker_process&&) and worker_daemon(worker_daemon&&).
move_ctor(t, s) ==
    /\ ~live[t] /\ live[s] /\ ~Busy(s) /\ t # s
    /\ kind' = [kind EXCEPT ![t] = kind[s]]
    /\ child_pid' = move_of(child_pid, t, s)
    /\ child_of' = move_hist(child_of, t, s)
    /\ ev' = EvOf("move_ctor", t, s)
    /\ UNCHANGED <<joiner, delay_ms, sleeps, child, zombies, forks>>
    /\ UNCHANGED <<fvars, xvars, mvars>>

\* operator=(worker_process&&) and operator=(worker_daemon&&); t = s is the
\* assignment of a handle to itself.
move_assign(t, s) ==
    /\ live[t] /\ live[s] /\ ~Busy(t) /\ ~Busy(s) /\ SameKind(t, s)
    /\ child_pid' = move_of(child_pid, t, s)
    /\ child_of' = move_hist(child_of, t, s)
    /\ ev' = EvOf("move_assign", t, s)
    /\ UNCHANGED <<kind, joiner, delay_ms, sleeps, child, zombies, forks>>
    /\ UNCHANGED <<fvars, xvars, mvars>>

\* ~worker_process(): if (is_running()) stop(). The table afterwards and
\* the system calls made.
dtor_of(pid, C, own) ==
    LET r == is_running_of(pid, C, own) IN
    IF r.ret
    THEN LET s == stop_of(r.slot, r.tbl, own) IN
         [tbl |-> s.tbl, calls |-> r.calls \o s.calls]
    ELSE [tbl |-> r.tbl, calls |-> r.calls]

\* ~worker_process().
worker_process_dtor(h) ==
    /\ h \in Workers /\ live[h] /\ ~Busy(h)
    /\ LET d == dtor_of(child_pid[h], child, child_of[h]) IN
       /\ child' = d.tbl
       /\ ev' = Ev("dtor", h, "void", d.calls)
    /\ kind' = [kind EXCEPT ![h] = "none"]
    /\ child_pid' = [child_pid EXCEPT ![h] = Empty]
    /\ child_of' = [child_of EXCEPT ![h] = 0]
    /\ UNCHANGED <<joiner, delay_ms, sleeps, zombies, forks>>
    /\ UNCHANGED <<fvars, xvars, mvars>>

\* ~worker_daemon(): release().
worker_daemon_dtor(h) ==
    /\ h \in Daemons /\ live[h] /\ ~Busy(h)
    /\ ev' = EvOf("daemon_dtor", h, h)
    /\ kind' = [kind EXCEPT ![h] = "none"]
    /\ child_pid' = release(child_pid, h)
    /\ child_of' = [child_of EXCEPT ![h] = 0]
    /\ UNCHANGED <<joiner, delay_ms, sleeps, child, zombies, forks>>
    /\ UNCHANGED <<fvars, xvars, mvars>>

Min(a, b) == IF a < b THEN a ELSE b

\* The delay after one sleep: std::min(delay_ms * 2, delay_max).
next_delay(d) == Min(d * 2, delay_max)

\* One evaluation of join()'s loop condition on handle h; d is the delay the
\* loop holds at that point and slept the sleep that just ended (0: none).
join_poll(h, d, slept) ==
    LET r == is_running_of(child_pid[h], child, child_of[h]) IN
    /\ child_pid' = [child_pid EXCEPT ![h] = r.slot]
    /\ child_of' = [child_of EXCEPT ![h] = IF r.slot = Empty THEN 0 ELSE @]
    /\ child' = r.tbl
    /\ joiner' = IF r.ret THEN h ELSE 0
    /\ delay_ms' = IF r.ret THEN d ELSE delay_init
    /\ sleeps' = IF r.ret /\ slept # 0 THEN sleeps + 1 ELSE 0
    /\ ev' = [Ev("join", h, IF r.ret THEN "sleeping" ELSE "return", r.calls)
                 EXCEPT !.ms = slept]
    /\ UNCHANGED <<kind, zombies, forks>>
    /\ UNCHANGED <<fvars, xvars, mvars>>

\* void join() const: the call, up to its return or its first sleep.
join(h) ==
    /\ live[h] /\ joiner = 0
    /\ join_poll(h, delay_init, 0)

\* join(): the sleep of delay_ms ends, the delay doubles, the loop condition
\* is evaluated again.
join_wake(h) ==
    /\ joiner = h /\ sleeps < MaxSleeps
    /\ join_poll(h, next_delay(delay_ms), delay_ms)

\* reap_all()'s loop, while (waitpid(0, nullptr, WNOHANG) > 0): each turn
\* reaps one terminated child of the caller's process group.
RECURSIVE reap_loop(_)
reap_loop(C) ==
    LET Z == {c \in Children : C[c].st = "zombie" /\ ~C[c].sess} IN
    IF Z = {} THEN C ELSE reap_loop(Reap(C, CHOOSE c \in Z : TRUE))

\* static void reap_all() noexcept.
reap_all ==
    /\ child' = reap_loop(child)
    /\ ev' = [NoEv EXCEPT !.op = "reap_all"]
    /\ UNCHANGED <<kind, child_pid, child_of, joiner, delay_ms, sleeps, zombies, forks>>
    /\ UNCHANGED <<fvars, xvars, mvars>>

\* static void enable_zombies(bool): sigaction(SIGCHLD) installs SIG_DFL or
\* SIG_IGN with SA_NOCLDWAIT (with SIGCHLD and a valid act it does not fail).
enable_zombies(enabled) ==
    /\ zombies' = enabled
    /\ ev' = NoEv
    /\ UNCHANGED <<kind, child_pid, child_of, joiner, delay_ms, sleeps, child, forks>>
    /\ UNCHANGED <<fvars, xvars, mvars>>

\* -------------------------------------------------------------- children
\* A child's termination: it stays a zombie under SIG_DFL and is reaped by
\* the kernel at once under SIG_IGN|SA_NOCLDWAIT.
die(C, c) == IF zombies THEN [C EXCEPT ![c].st = "zombie"] ELSE Reap(C, c)

ChildStep(C) ==
    /\ child' = C
    /\ ev' = NoEv
    /\ UNCHANGED <<kind, child_pid, child_of, joiner, delay_ms, sleeps, zombies, forks>>
    /\ UNCHANGED <<fvars, xvars, mvars>>

\* The daemon child's setsid(): it leaves the parent's process group.
child_setsid(c) ==
    /\ child[c].st = "setsid"
    /\ ChildStep([child EXCEPT ![c].st = "task", ![c].sess = TRUE])

\* The child's task() returns and the child calls exit(EXIT_SUCCESS).
child_exit(c) ==
    /\ child[c].st = "task"
    /\ ChildStep(die(child, c))

\* A SIGTERM delivered to the child terminates it.
child_sigterm(c) ==
    /\ child[c].st \in Executing /\ child[c].term
    /\ ChildStep(die(child, c))

Next ==
    \/ \E h \in Handles : worker_process_ctor(h)
    \/ \E h \in Handles : is_running(h)
    \/ \E h \in Handles : stop(h)
    \/ \E h \in Handles : start(h)
    \/ \E h \in Handles : worker_daemon_start(h)
    \/ \E h \in Handles : detach(h)
    \/ \E t, s \in Handles : move_ctor(t, s)
    \/ \E t, s \in Handles : move_assign(t, s)
    \/ \E h \in Handles : worker_process_dtor(h)
    \/ \E h \in Handles : worker_daemon_dtor(h)
    \/ \E h \in Handles : join(h)
    \/ \E h \in Handles : join_wake(h)
    \/ reap_all
    \/ \E b \in BOOLEAN : enable_zombies(b)
    \/ \E c \in Children : child_setsid(c)
    \/ \E c \in Children : child_exit(c)
    \/ \E c \in Children : child_sigterm(c)
    \/ \E h \in Handles : worker_process_ctor(h)
    \/ \E h \in Handles : is_running(h)
    \/ \E h \in Handles : stop(h)

Spec == Init /\ [][Next]_vars

\* ------------------------------------------------------------- auto_fd
FevOf(op, h, s, arg, ret, calls) ==
    [NoFev EXCEPT !.op = op, !.h = h, !.src = s, !.arg = arg, !.ret = ret,
        !.pre = fd[h], !.srcpre = IF s = 0 THEN -1 ELSE fd[s],
        !.calls = calls, !.was = fdtab]

\* The descriptors some auto_fd or auto_pipe object holds.
Held ==
    {fd[h] : h \in fd_live} \cup {read_fd[p] : p \in pipe_live}
        \cup {write_fd[p] : p \in pipe_live}

\* The raw descriptors of the program: open, and held by no object.
Loose == {d \in DOMAIN fdtab : fdtab[d] # 0} \ Held

\* A close() that closes the descriptor and keeps its number in the slot.
close_of_keeps(v, T) ==
    IF -1 # v
    THEN [slot |-> v, tbl |-> sys_close(T, v), calls |-> <<FdCall("close", T, v, 0)>>]
    ELSE [slot |-> v, tbl |-> T, calls |-> <<>>]

\* A close() that empties the slot and forgets the system call.
close_of_forgets(v, T) == [slot |-> -1, tbl |-> T, calls |-> <<>>]

\* void close(): if (-1 != fd) { ::close(fd); fd = -1; } on a slot value v.
close_of(v, T) ==
    IF -1 # v
    THEN [slot |-> -1, tbl |-> sys_close(T, v), calls |-> <<FdCall("close", T, v, 0)>>]
    ELSE [slot |-> v, tbl |-> T, calls |-> <<>>]

\* int set(i): close(); fd = i; return i.
set_of(v, T, i) ==
    LET c == close_of(v, T) IN
    [slot |-> i, tbl |-> c.tbl, calls |-> c.calls, ret |-> i]

\* A release() that returns the value and keeps it in the slot.
release_of_keeps(v) == [slot |-> v, ret |-> v]

\* int release(): i = fd; fd = -1; return i.
release_of(v) == [slot |-> -1, ret |-> v]

\* dup(i) on an auto_fd i (through operator int) with slot value v.
dup_of(v, T) ==
    [ret |-> sys_dup_ret(T, v), tbl |-> sys_dup(T, v),
     calls |-> <<FdCall("dup", T, v, sys_dup_ret(T, v))>>]

\* A copy assignment that closes what the target holds and leaves it empty,
\* without the dup().
copy_assign_of_empty(tv, sv, T) ==
    LET r == set_of(tv, T, -1) IN
    [slot |-> r.slot, tbl |-> r.tbl, calls |-> r.calls]

\* operator=(const auto_fd& i): set(dup(i)), on target slot tv and source
\* slot sv.
copy_assign_of(tv, sv, T) ==
    LET d == dup_of(sv, T)
        r == set_of(tv, d.tbl, d.ret) IN
    [slot |-> r.slot, tbl |-> r.tbl, calls |-> d.calls \o r.calls]

\* operator=(auto_fd&& i): set(i.release()), on target slot tv and source
\* slot sv; self: the two are one object. src is the source's slot afterwards
\* when it is another object.
move_assign_of(tv, sv, T, self) ==
    LET v == release_of(sv)
        r == set_of(IF self THEN v.slot ELSE tv, T, v.ret) IN
    [slot |-> r.slot, src |-> v.slot, tbl |-> r.tbl, calls |-> r.calls]

\* operator bool() of an auto_fd with slot value v: -1 != fd.
fd_bool(v) == -1 # v

\* The integers the program passes for a raw descriptor to object h: -1, a
\* raw descriptor of its own, or the value h already holds.
RawArgs(h) == {-1} \cup Loose \cup (IF h \in fd_live THEN {fd[h]} ELSE {})

\* The descriptors objects are responsible for after an operation recorded
\* as e: those they were, less the ones closed and the one release() returned,
\* plus the one handed in and the ones dup() and pipe() returned.
GivenAfter(e) ==
    LET C == {e.calls[i] : i \in 1..Len(e.calls)} IN
    ((given \ {c.fd : c \in {x \in C : x.fn = "close"}})
        \ (IF e.op = "release" THEN {e.ret} ELSE {}))
    \cup (IF e.op \in {"ctor", "assign_int", "set", "set_release"} THEN {e.arg} \ {-1} ELSE {})
    \cup ({c.ret : c \in {x \in C : x.fn \in {"dup", "pipe"}}} \ {-1})

FdStep(f, T, e) ==
    /\ fd' = f
    /\ fdtab' = T
    /\ fev' = e
    /\ given' = GivenAfter(e)
    /\ UNCHANGED <<read_fd, write_fd, pipe_live>>
    /\ UNCHANGED <<pvars, xvars, mvars>>

\* auto_fd(int i = -1): fd{i}.
auto_fd_ctor(h, i) ==
    /\ h \notin fd_live /\ i \in RawArgs(h)
    /\ fd_live' = fd_live \cup {h}
    /\ FdStep([fd EXCEPT ![h] = i], fdtab, FevOf("ctor", h, 0, i, -1, <<>>))

\* auto_fd(const auto_fd& i): fd{dup(i)}.
auto_fd_copy_ctor(t, s) ==
    /\ t \notin fd_live /\ s \in fd_live
    /\ fd_live' = fd_live \cup {t}
    /\ LET d == dup_of(fd[s], fdtab) IN
       FdStep([fd EXCEPT ![t] = d.ret], d.tbl, FevOf("copy_ctor", t, s, -1, -1, d.calls))

\* auto_fd(auto_fd&& i): fd{i}, i.release().
auto_fd_move_ctor(t, s) ==
    /\ t \notin fd_live /\ s \in fd_live
    /\ fd_live' = fd_live \cup {t}
    /\ FdStep([fd EXCEPT ![t] = fd[s], ![s] = release_of(fd[s]).slot], fdtab,
              FevOf("move_ctor", t, s, -1, -1, <<>>))

\* ~auto_fd(): close().
auto_fd_dtor(h) ==
    /\ h \in fd_live
    /\ fd_live' = fd_live \ {h}
    /\ LET c == close_of(fd[h], fdtab) IN
       FdStep([fd EXCEPT ![h] = -1], c.tbl, FevOf("dtor", h, 0, -1, -1, c.calls))

\* operator=(int i): set(i).
auto_fd_assign_int(h, i) ==
    /\ h \in fd_live /\ i \in RawArgs(h)
    /\ fd_live' = fd_live
    /\ LET r == set_of(fd[h], fdtab, i) IN
       FdStep([fd EXCEPT ![h] = r.slot], r.tbl, FevOf("assign_int", h, 0, i, -1, r.calls))

\* operator=(const auto_fd& i); t = s is the assignment of an object to itself.
auto_fd_copy_assign(t, s) ==
    /\ t \in fd_live /\ s \in fd_live
    /\ fd_live' = fd_live
    /\ LET r == copy_assign_of(fd[t], fd[s], fdtab) IN
       FdStep([fd EXCEPT ![t] = r.slot], r.tbl, FevOf("copy_assign", t, s, -1, -1, r.calls))

\* operator=(auto_fd&& i); t = s is the assignment of an object to itself.
auto_fd_move_assign(t, s) ==
    /\ t \in fd_live /\ s \in fd_live
    /\ fd_live' = fd_live
    /\ LET r == move_assign_of(fd[t], fd[s], fdtab, t = s) IN
       FdStep([fd EXCEPT ![s] = r.src, ![t] = r.slot], r.tbl,
              FevOf("move_assign", t, s, -1, -1, r.calls))

\* int set(int i).
auto_fd_set(h, i) ==
    /\ h \in fd_live /\ i \in RawArgs(h)
    /\ fd_live' = fd_live
    /\ LET r == set_of(fd[h], fdtab, i) IN
       FdStep([fd EXCEPT ![h] = r.slot], r.tbl, FevOf("set", h, 0, i, r.ret, r.calls))

\* int release().
auto_fd_release(h) ==
    /\ h \in fd_live
    /\ fd_live' = fd_live
    /\ LET r == release_of(fd[h]) IN
       FdStep([fd EXCEPT ![h] = r.slot], fdtab, FevOf("release", h, 0, -1, r.ret, <<>>))

\* The expression f.set(f.release()).
auto_fd_set_release(h) ==
    /\ h \in fd_live
    /\ fd_live' = fd_live
    /\ LET v == release_of(fd[h])
           r == set_of(v.slot, fdtab, v.ret) IN
       FdStep([fd EXCEPT ![h] = r.slot], r.tbl,
              FevOf("set_release", h, 0, v.ret, r.ret, r.calls))

\* void close().
auto_fd_close(h) ==
    /\ h \in fd_live
    /\ fd_live' = fd_live
    /\ LET c == close_of(fd[h], fdtab) IN
       FdStep([fd EXCEPT ![h] = c.slot], c.tbl, FevOf("close", h, 0, -1, -1, c.calls))

\* The program opens a file: open(), mkstemp().
raw_open ==
    /\ FreeFds(fdtab) # {}
    /\ fd_live' = fd_live
    /\ FdStep(fd, sys_open(fdtab),
              [NoFev EXCEPT !.op = "open", !.ret = sys_open_ret(fdtab), !.was = fdtab])

\* The program closes a raw descriptor of its own.
raw_close(d) ==
    /\ d \in Loose
    /\ fd_live' = fd_live
    /\ FdStep(fd, sys_close(fdtab, d),
              [NoFev EXCEPT !.op = "raw_close", !.arg = d, !.was = fdtab,
                  !.calls = <<FdCall("close", fdtab, d, 0)>>])

FdNext ==
    \/ \E h \in Fdhs : \E i \in Fds \cup {-1} : auto_fd_ctor(h, i)
    \/ \E t, s \in Fdhs : auto_fd_copy_ctor(t, s)
    \/ \E t, s \in Fdhs : auto_fd_move_ctor(t, s)
    \/ \E h \in Fdhs : auto_fd_dtor(h)
    \/ \E h \in Fdhs : \E i \in Fds \cup {-1} : auto_fd_assign_int(h, i)
    \/ \E t, s \in Fdhs : auto_fd_copy_assign(t, s)
    \/ \E t, s \in Fdhs : auto_fd_move_assign(t, s)
    \/ \E h \in Fdhs : \E i \in Fds \cup {-1} : auto_fd_set(h, i)
    \/ \E h \in Fdhs : auto_fd_release(h)
    \/ \E h \in Fdhs : auto_fd_set_release(h)
    \/ \E h \in Fdhs : auto_fd_close(h)
    \/ raw_open
    \/ \E d \in Fds : raw_close(d)

FdSpec == Init /\ [][FdNext]_vars

\* ------------------------------------------------------------ auto_pipe
\* pipe(fildes): it fails (-1, EMFILE) unless two descriptors are free;
\* fildes[0] and fildes[1] are the two lowest free descriptors, and name two
\* new open file descriptions, the read end and the write end.
sys_pipe_ret(T) == IF Cardinality(FreeFds(T)) >= 2 THEN 0 ELSE -1
pipe_rd(T) == Lowest(FreeFds(T))
pipe_wr(T) == Lowest(FreeFds(T) \ {pipe_rd(T)})
sys_pipe(T) ==
    IF sys_pipe_ret(T) = -1 THEN T
    ELSE LET T1 == [T EXCEPT ![pipe_rd(T)] = FreshOfd(T)] IN
         [T1 EXCEPT ![pipe_wr(T)] = FreshOfd(T1)]

PFevOf(op, p, s, ret, calls) ==
    [NoFev EXCEPT !.op = op, !.h = p, !.src = s, !.ret = ret,
        !.ppre = <<read_fd[p], write_fd[p]>>,
        !.psrc = IF s = 0 THEN <<-1, -1>> ELSE <<read_fd[s], write_fd[s]>>,
        !.calls = calls, !.was = fdtab]

\* A conversion that is true only when both ends are held.
pipe_bool_both(r, w) == fd_bool(r) /\ fd_bool(w)

\* operator bool(): read_fd || write_fd, each through auto_fd's operator bool.
pipe_bool(r, w) == fd_bool(r) \/ fd_bool(w)

\* get_rfd() and get_wfd(): read_fd.get(), write_fd.get().
get_rfd(p) == read_fd[p]
get_wfd(p) == write_fd[p]

\* close(): close_rfd(); close_wfd(), on the two slot values.
pipe_close_of(r, w, T) ==
    LET a == close_of(r, T)
        b == close_of(w, a.tbl) IN
    [r |-> a.slot, w |-> b.slot, tbl |-> b.tbl, calls |-> a.calls \o b.calls]

\* read_fd = p.read_fd; write_fd = p.write_fd, the copy assignments of the
\* two members, with <<tr, tw>> the target's slots and <<sr, sw>> the source's.
pipe_copy_of(tr, tw, sr, sw, T) ==
    LET a == copy_assign_of(tr, sr, T)
        b == copy_assign_of(tw, sw, a.tbl) IN
    [r |-> a.slot, w |-> b.slot, tbl |-> b.tbl, calls |-> a.calls \o b.calls]

\* read_fd = std::move(p.read_fd); write_fd = std::move(p.write_fd).
pipe_move_of(tr, tw, sr, sw, T, self) ==
    LET a == move_assign_of(tr, sr, T, self)
        b == move_assign_of(tw, sw, a.tbl, self) IN
    [r |-> a.slot, w |-> b.slot, sr |-> a.src, sw |-> b.src,
     tbl |-> b.tbl, calls |-> a.calls \o b.calls]

PipeStep(R, W, T, e) ==
    /\ read_fd' = R
    /\ write_fd' = W
    /\ fdtab' = T
    /\ fev' = e
    /\ given' = GivenAfter(e)
    /\ UNCHANGED <<fd, fd_live>>
    /\ UNCHANGED <<pvars, xvars, mvars>>

\* auto_pipe(): pipe(fildes), throw on failure; read_fd = fildes[0];
\* write_fd = fildes[1].
auto_pipe_ctor(p) ==
    /\ p \notin pipe_live
    /\ IF sys_pipe_ret(fdtab) # 0
       THEN /\ pipe_live' = pipe_live
            /\ PipeStep(read_fd, write_fd, fdtab,
                        PFevOf("pipe_ctor", p, 0, -1, <<FdCall("pipe", fdtab, -1, -1)>>))
       ELSE LET a == set_of(read_fd[p], sys_pipe(fdtab), pipe_rd(fdtab))
                b == set_of(write_fd[p], a.tbl, pipe_wr(fdtab)) IN
            /\ pipe_live' = pipe_live \cup {p}
            /\ PipeStep([read_fd EXCEPT ![p] = a.slot], [write_fd EXCEPT ![p] = b.slot], b.tbl,
                        PFevOf("pipe_ctor", p, 0, 0,
                               <<FdCall("pipe", fdtab, -1, pipe_rd(fdtab)),
                                 FdCall("pipe", fdtab, -1, pipe_wr(fdtab))>>
                               \o a.calls \o b.calls))

\* auto_pipe(const auto_pipe& p).
auto_pipe_copy_ctor(t, s) ==
    /\ t \notin pipe_live /\ s \in pipe_live
    /\ pipe_live' = pipe_live \cup {t}
    /\ LET r == pipe_copy_of(read_fd[t], write_fd[t], read_fd[s], write_fd[s], fdtab) IN
       PipeStep([read_fd EXCEPT ![t] = r.r], [write_fd EXCEPT ![t] = r.w], r.tbl,
                PFevOf("pipe_copy_ctor", t, s, -1, r.calls))

\* auto_pipe(auto_pipe&& p).
auto_pipe_move_ctor(t, s) ==
    /\ t \notin pipe_live /\ s \in pipe_live
    /\ pipe_live' = pipe_live \cup {t}
    /\ LET r == pipe_move_of(read_fd[t], write_fd[t], read_fd[s], write_fd[s], fdtab, FALSE) IN
       PipeStep([read_fd EXCEPT ![s] = r.sr, ![t] = r.r],
                [write_fd EXCEPT ![s] = r.sw, ![t] = r.w], r.tbl,
                PFevOf("pipe_move_ctor", t, s, -1, r.calls))

\* ~auto_pipe(): close(); the members are destroyed empty.
auto_pipe_dtor(p) ==
    /\ p \in pipe_live
    /\ pipe_live' = pipe_live \ {p}
    /\ LET c == pipe_close_of(read_fd[p], write_fd[p], fdtab) IN
       PipeStep([read_fd EXCEPT ![p] = c.r], [write_fd EXCEPT ![p] = c.w], c.tbl,
                PFevOf("pipe_dtor", p, 0, -1, c.calls))

\* operator=(const auto_pipe& p) = default: the copy assignment of each
\* member; t = s is the assignment of an object to itself.
auto_pipe_copy_assign(t, s) ==
    /\ t \in pipe_live /\ s \in pipe_live
    /\ pipe_live' = pipe_live
    /\ LET r == pipe_copy_of(read_fd[t], write_fd[t], read_fd[s], write_fd[s], fdtab) IN
       PipeStep([read_fd EXCEPT ![t] = r.r], [write_fd EXCEPT ![t] = r.w], r.tbl,
                PFevOf("pipe_copy_assign", t, s, -1, r.calls))

\* operator=(auto_pipe&& p); t = s is the assignment of an object to itself.
auto_pipe_move_assign(t, s) ==
    /\ t \in pipe_live /\ s \in pipe_live
    /\ pipe_live' = pipe_live
    /\ LET r == pipe_move_of(read_fd[t], write_fd[t], read_fd[s], write_fd[s], fdtab, t = s) IN
       PipeStep([read_fd EXCEPT ![s] = r.sr, ![t] = r.r],
                [write_fd EXCEPT ![s] = r.sw, ![t] = r.w], r.tbl,
                PFevOf("pipe_move_assign", t, s, -1, r.calls))

\* close_rfd(): read_fd.close().
close_rfd(p) ==
    /\ p \in pipe_live
    /\ pipe_live' = pipe_live
    /\ LET c == close_of(read_fd[p], fdtab) IN
       PipeStep([read_fd EXCEPT ![p] = c.slot], write_fd, c.tbl,
                PFevOf("close_rfd", p, 0, -1, c.calls))

\* close_wfd(): write_fd.close().
close_wfd(p) ==
    /\ p \in pipe_live
    /\ pipe_live' = pipe_live
    /\ LET c == close_of(write_fd[p], fdtab) IN
       PipeStep(read_fd, [write_fd EXCEPT ![p] = c.slot], c.tbl,
                PFevOf("close_wfd", p, 0, -1, c.calls))

\* close(): close_rfd(); close_wfd().
auto_pipe_close(p) ==
    /\ p \in pipe_live
    /\ pipe_live' = pipe_live
    /\ LET c == pipe_close_of(read_fd[p], write_fd[p], fdtab) IN
       PipeStep([read_fd EXCEPT ![p] = c.r], [write_fd EXCEPT ![p] = c.w], c.tbl,
                PFevOf("pipe_close", p, 0, -1, c.calls))

PipeNext ==
    \/ \E p \in PipeIds : auto_pipe_ctor(p)
    \/ \E t, s \in PipeIds : auto_pipe_copy_ctor(t, s)
    \/ \E t, s \in PipeIds : auto_pipe_move_ctor(t, s)
    \/ \E p \in PipeIds : auto_pipe_dtor(p)
    \/ \E t, s \in PipeIds : auto_pipe_copy_assign(t, s)
    \/ \E t, s \in PipeIds : auto_pipe_move_assign(t, s)
    \/ \E p \in PipeIds : close_rfd(p)
    \/ \E p \in PipeIds : close_wfd(p)
    \/ \E p \in PipeIds : auto_pipe_close(p)

\* A program whose descriptors are all ends of auto_pipe objects.
PipeInit == ProcInit /\ FdInit(MaxPipeFds) /\ ModInit

PipeSpec == PipeInit /\ [][PipeNext]_vars

\* ------------------------------------------- a pipe across fork()
\* auto_pipe_tests(): the parent constructs o, moves it into p and forks; the
\* child closes its read end, copies p into q, writes to q's write end and
\* exits; the parent closes its write end and reads.
Msg == [i \in 1..MsgLen |-> i]

\* The parent's objects o and p.
ObjO == 1
ObjP == 2

\* The descriptors of table T that name open file description f.
Naming(T, f) == {d \in DOMAIN T : T[d] = f}

\* d is, in table T, a descriptor of the write end, and of the read end.
IsWriteEnd(T, d) == IsOpen(T, d) /\ T[d] = chan.wofd
IsReadEnd(T, d) == IsOpen(T, d) /\ T[d] = chan.rofd

\* No descriptor of either process names the write end.
NoWriter == Naming(fdtab, chan.wofd) = {} /\ Naming(ctab, chan.wofd) = {}

\* A step of the parent: its objects, its table and its position.
ParentStep(R, W, L, T, at) ==
    /\ read_fd' = R
    /\ write_fd' = W
    /\ pipe_live' = L
    /\ fdtab' = T
    /\ pc' = [pc EXCEPT !.parent = at]
    /\ UNCHANGED <<fd, fd_live, given, fev>>
    /\ UNCHANGED <<pvars, mvars>>

\* A step of the child: its objects, its table and its position.
ChildProcStep(O, T, at) ==
    /\ cobj' = O
    /\ ctab' = T
    /\ pc' = [pc EXCEPT !.child = at]
    /\ UNCHANGED <<fd, fd_live, read_fd, write_fd, pipe_live, fdtab, given, fev>>
    /\ UNCHANGED <<pvars, mvars>>

\* posixcc::auto_pipe o: the constructor, which throws when pipe() fails.
test_construct ==
    /\ pc.parent = "construct"
    /\ IF sys_pipe_ret(fdtab) # 0
       THEN /\ ParentStep(read_fd, write_fd, pipe_live, fdtab, "thrown")
            /\ UNCHANGED <<ctab, cobj, chan, io>>
       ELSE LET a == set_of(read_fd[ObjO], sys_pipe(fdtab), pipe_rd(fdtab))
                b == set_of(write_fd[ObjO], a.tbl, pipe_wr(fdtab)) IN
            /\ ParentStep([read_fd EXCEPT ![ObjO] = a.slot],
                          [write_fd EXCEPT ![ObjO] = b.slot],
                          pipe_live \cup {ObjO}, b.tbl, "move")
            /\ chan' = [rofd |-> b.tbl[pipe_rd(fdtab)], wofd |-> b.tbl[pipe_wr(fdtab)],
                        buf |-> <<>>]
            /\ UNCHANGED <<ctab, cobj, io>>

\* posixcc::auto_pipe p{std::move(o)}.
test_move ==
    /\ pc.parent = "move"
    /\ LET r == pipe_move_of(read_fd[ObjP], write_fd[ObjP],
                             read_fd[ObjO], write_fd[ObjO], fdtab, FALSE) IN
       ParentStep([read_fd EXCEPT ![ObjO] = r.sr, ![ObjP] = r.r],
                  [write_fd EXCEPT ![ObjO] = r.sw, ![ObjP] = r.w],
                  pipe_live \cup {ObjP}, r.tbl, "fork")
    /\ UNCHANGED <<ctab, cobj, chan, io>>

\* switch (pid_t pid = fork()): case -1 returns; otherwise the child starts
\* with a copy of the parent's table and objects.
test_fork ==
    /\ pc.parent = "fork"
    /\ \/ /\ ParentStep(read_fd, write_fd, pipe_live, fdtab, "done")
          /\ UNCHANGED <<ctab, cobj, chan, io>>
       \/ /\ read_fd' = read_fd /\ write_fd' = write_fd /\ pipe_live' = pipe_live
          /\ fdtab' = fdtab
          /\ pc' = [parent |-> "close_wfd", child |-> "close_rfd"]
          /\ ctab' = fdtab
          /\ cobj' = [cobj EXCEPT !.p = <<read_fd[ObjP], write_fd[ObjP]>>]
          /\ UNCHANGED <<fd, fd_live, given, fev, chan, io>>
          /\ UNCHANGED <<pvars, mvars>>

\* case 0: p.close_rfd().
test_child_close_rfd ==
    /\ pc.child = "close_rfd"
    /\ LET c == close_of(cobj.p[1], ctab) IN
       ChildProcStep([cobj EXCEPT !.p = <<c.slot, cobj.p[2]>>], c.tbl, "copy")
    /\ UNCHANGED <<chan, io>>

\* posixcc::auto_pipe q{p}.
test_child_copy ==
    /\ pc.child = "copy"
    /\ LET r == pipe_copy_of(cobj.q[1], cobj.q[2], cobj.p[1], cobj.p[2], ctab) IN
       ChildProcStep([cobj EXCEPT !.q = <<r.r, r.w>>], r.tbl, "write")
    /\ UNCHANGED <<chan, io>>

\* write(q.get_wfd(), "hello", 5): the bytes enter the pipe when the
\* descriptor is one of its write end, and the call fails otherwise.
test_child_write ==
    /\ pc.child = "write"
    /\ ChildProcStep(cobj, ctab, "exit")
    /\ IF IsWriteEnd(ctab, cobj.q[2])
       THEN /\ chan' = [chan EXCEPT !.buf = @ \o Msg]
            /\ io' = [io EXCEPT !.sent = @ \o Msg]
       ELSE UNCHANGED <<chan, io>>

\* exit(0): the kernel closes every descriptor of the child.
test_child_exit ==
    /\ pc.child = "exit"
    /\ ChildProcStep(cobj, [d \in DOMAIN ctab |-> 0], "exited")
    /\ UNCHANGED <<chan, io>>

\* default: p.close_wfd().
test_parent_close_wfd ==
    /\ pc.parent = "close_wfd"
    /\ LET c == close_of(write_fd[ObjP], fdtab) IN
       ParentStep(read_fd, [write_fd EXCEPT ![ObjP] = c.slot], pipe_live, c.tbl, "read")
    /\ UNCHANGED <<ctab, cobj, chan, io>>

\* read(p.get_rfd(), buf, n), blocking: it returns bytes of the pipe when
\* there are some, 0 when there are none and no descriptor names the write
\* end, and waits otherwise. The parent reads until a read returns 0.
test_parent_read(n) ==
    /\ pc.parent = "read"
    /\ IF ~IsReadEnd(fdtab, get_rfd(ObjP))
       THEN /\ ParentStep(read_fd, write_fd, pipe_live, fdtab, "wait")
            /\ UNCHANGED <<ctab, cobj, chan, io>>
       ELSE IF chan.buf # <<>>
       THEN LET k == Min(n, Len(chan.buf)) IN
            /\ ParentStep(read_fd, write_fd, pipe_live, fdtab, "read")
            /\ chan' = [chan EXCEPT !.buf = SubSeq(@, k + 1, Len(@))]
            /\ io' = [io EXCEPT !.rcvd = @ \o SubSeq(chan.buf, 1, k)]
            /\ UNCHANGED <<ctab, cobj>>
       ELSE /\ NoWriter
            /\ ParentStep(read_fd, write_fd, pipe_live, fdtab, "wait")
            /\ io' = [io EXCEPT !.eof = TRUE]
            /\ UNCHANGED <<ctab, cobj, chan>>

\* waitpid(pid, &unused, 0).
test_parent_waitpid ==
    /\ pc.parent = "wait" /\ pc.child = "exited"
    /\ ParentStep(read_fd, write_fd, pipe_live, fdtab, "done")
    /\ UNCHANGED <<ctab, cobj, chan, io>>

ForkNext ==
    \/ test_construct
    \/ test_move
    \/ test_fork
    \/ test_child_close_rfd
    \/ test_child_copy
    \/ test_child_write
    \/ test_child_exit
    \/ test_parent_close_wfd
    \/ \E n \in 1..MaxRead : test_parent_read(n)
    \/ test_parent_waitpid

\* The test starts in a process that may have between 1 and MaxPipeFds
\* descriptors open, some of which are open already.
ForkInit ==
    /\ ProcInit
    /\ \E n \in 1..MaxPipeFds : \E k \in 0..n : FdInitOpen(n, k)
    /\ ModInit

ForkSpec == ForkInit /\ [][ForkNext]_vars

\* ------------------------------------------------- modsymbol (src/module.cc)
\* What the module operation op of object m did: src is the object it moved
\* from, from and sym the arguments of load_modsymbol, what the message of
\* the error it threw ("" if it returned), ret the pointer it returned, calls
\* its calls of the dynamic linker, hpre and ppre the two pointers it found
\* (those of src for a move, those of m otherwise), rpre the reference counts
\* it found, prev the operation before it.
MevOf(op, m, src, from, sym, what, ret, calls, hpre, ppre) ==
    [op |-> op, prev |-> mev.op, m |-> m, src |-> src, from |-> from, sym |-> sym,
     what |-> what, ret |-> ret, calls |-> calls, hpre |-> hpre, ppre |-> ppre,
     rpre |-> refs]

\* A move constructor that leaves the source as it was.
mod_move_of_copies(h, p) == [handle |-> h, ptr |-> p, shandle |-> h, sptr |-> p]

\* modsymbol::modsymbol(modsymbol&& m): handle{m.handle}, ptr{m.ptr}, then
\* m.ptr = nullptr; m.handle = nullptr. handle and ptr are the new object's,
\* shandle and sptr the source's.
mod_move_of(h, p) == [handle |-> h, ptr |-> p, shandle |-> 0, sptr |-> 0]

\* modsymbol::~modsymbol(): if (handle) dlclose(handle).
mod_dtor_of(R, h) ==
    IF h # 0
    THEN [refs |-> sys_dlclose(R, h),
          calls |-> <<DlCall("dlclose", h, sys_dlclose_ret(R, h))>>]
    ELSE [refs |-> R, calls |-> <<>>]

\* A load_modsymbol that throws on a missing symbol with the library open.
load_modsymbol_of_leaks(R, sym, from, ok) ==
    LET h  == sys_dlopen_ret(from, ok)
        R1 == sys_dlopen(R, from, ok)
        c1 == DlCall("dlopen", from, h)
        p  == sys_dlsym_ret(h, sym)
        c2 == DlCall("dlsym", h, p)
    IN  IF h = 0
        THEN [what |-> "dlopen failed on", handle |-> 0, ptr |-> 0,
              refs |-> R1, calls |-> <<c1>>]
        ELSE IF p = 0
        THEN [what |-> "dlsym failed to find", handle |-> 0, ptr |-> 0,
              refs |-> R1, calls |-> <<c1, c2>>]
        ELSE [what |-> "", handle |-> h, ptr |-> p, refs |-> R1, calls |-> <<c1, c2>>]

\* load_modsymbol(sym, from): dlopen; if it gave NULL, throw; dlsym; if it
\* gave NULL, dlclose and throw; else return modsymbol{h, p}. what is the
\* message of the error thrown, "" if none; handle and ptr are the
\* members of the object returned.
load_modsymbol_of(R, sym, from, ok) ==
    LET h  == sys_dlopen_ret(from, ok)
        R1 == sys_dlopen(R, from, ok)
        c1 == DlCall("dlopen", from, h)
        p  == sys_dlsym_ret(h, sym)
        c2 == DlCall("dlsym", h, p)
    IN  IF h = 0
        THEN [what |-> "dlopen failed on", handle |-> 0, ptr |-> 0,
              refs |-> R1, calls |-> <<c1>>]
        ELSE IF p = 0
        THEN [what |-> "dlsym failed to find", handle |-> 0, ptr |-> 0,
              refs |-> sys_dlclose(R1, h),
              calls |-> <<c1, c2, DlCall("dlclose", h, sys_dlclose_ret(R1, h))>>]
        ELSE [what |-> "", handle |-> h, ptr |-> p, refs |-> R1, calls |-> <<c1, c2>>]

\* A step of the module handles: the objects, the linker's counts and the
\* record of the operation.
ModStep(H, P, L, R, e) ==
    /\ handle' = H
    /\ ptr' = P
    /\ mod_live' = L
    /\ refs' = R
    /\ mev' = e
    /\ UNCHANGED <<pvars, fvars, xvars>>

\* modsymbol m: the default constructor, both pointers null.
modsymbol_ctor(m) ==
    /\ m \notin mod_live
    /\ ModStep([handle EXCEPT ![m] = 0], [ptr EXCEPT ![m] = 0], mod_live \cup {m}, refs,
               MevOf("ctor", m, 0, 0, 0, "", 0, <<>>, 0, 0))

\* modsymbol m{load_modsymbol(sym, from)}: the object the loader returns,
\* or no object when it throws.
load_modsymbol(m, sym, from, ok) ==
    /\ m \notin mod_live
    /\ LET r == load_modsymbol_of(refs, sym, from, ok)
       IN  ModStep([handle EXCEPT ![m] = r.handle], [ptr EXCEPT ![m] = r.ptr],
                   IF r.what = "" THEN mod_live \cup {m} ELSE mod_live, r.refs,
                   MevOf("load", m, 0, from, sym, r.what, 0, r.calls, 0, 0))

\* modsymbol m{std::move(s)}.
modsymbol_move_ctor(m, s) ==
    /\ m \notin mod_live
    /\ s \in mod_live
    /\ LET r == mod_move_of(handle[s], ptr[s])
       IN  ModStep([handle EXCEPT ![m] = r.handle, ![s] = r.shandle],
                   [ptr EXCEPT ![m] = r.ptr, ![s] = r.sptr],
                   mod_live \cup {m}, refs,
                   MevOf("move_ctor", m, s, 0, 0, "", 0, <<>>, handle[s], ptr[s]))

\* ~modsymbol() of m; the storage of an object that is gone reads as null.
modsymbol_dtor(m) ==
    /\ m \in mod_live
    /\ LET r == mod_dtor_of(refs, handle[m])
       IN  ModStep([handle EXCEPT ![m] = 0], [ptr EXCEPT ![m] = 0],
                   mod_live \ {m}, r.refs,
                   MevOf("dtor", m, 0, 0, 0, "", 0, r.calls, handle[m], ptr[m]))

\* get_symbol<T>(m): reinterpret_cast<T>(m.ptr).
get_symbol(m) ==
    /\ m \in mod_live
    /\ ModStep(handle, ptr, mod_live, refs,
               MevOf("get_symbol", m, 0, 0, 0, "", ptr[m], <<>>, handle[m], ptr[m]))

ModNext ==
    \/ \E m \in Mods : modsymbol_ctor(m)
    \/ \E m \in Mods, sym \in Syms, from \in Paths, ok \in BOOLEAN :
          load_modsymbol(m, sym, from, ok)
    \/ \E m, s \in Mods : modsymbol_move_ctor(m, s)
    \/ \E m \in Mods : modsymbol_dtor(m)
    \/ \E m \in Mods : get_symbol(m)

ModSpec == Init /\ [][ModNext]_vars

\* ------------------------------------------------------------------ claims
\* The system calls of the operation that just returned.
Calls == {ev.calls[i] : i \in 1..Len(ev.calls)}
Kills == {c \in Calls : c.fn = "kill"}
Waits == {c \in Calls : c.fn = "waitpid"}

\* C1: a handle passes to kill() and to waitpid() only a PID it owns: the PID
\* of the child it holds, which has not been reaped.
C1_OnlyOwnedPidNamed == \A c \in Kills \cup Waits : c.mine

\* C2: join() sleeps only while the child of its handle is executing, so it
\* returns once that child has run to completion, whoever reaped it; and when
\* it returns the handle is Empty, get_id() is 0 and is_running() is false.
C2_JoinReturnsEmpty ==
    ev.op = "join" =>
        \/ /\ ev.ret = "return"
           /\ child_pid[ev.h] = Empty
           /\ get_id(ev.h) = 0
           /\ ~is_running_of(child_pid[ev.h], child, child_of[ev.h]).ret
        \/ /\ ev.ret = "sleeping"
           /\ OwnSt(ev.h) \in Executing

\* C3: is_running() returns false on an Empty handle, false exactly when the
\* owned child has terminated and true exactly when it is executing; after
\* false the handle is Empty, after true the slot is unchanged.
C3_IsRunningTellsChildState ==
    ev.op = "is_running" =>
        \/ /\ ev.ret = "false"
           /\ child_pid[ev.h] = Empty
           /\ \A c \in Waits : c.mine /\ c.st = "zombie"
        \/ /\ ev.ret = "true"
           /\ OwnSt(ev.h) \in Executing
           /\ \A c \in Waits : child_pid[ev.h] = c.pid

\* C4: join() on an Empty handle raises an error (EINVAL) and does not
\* return normally.
C4_JoinOnEmptyThrows ==
    (ev.op = "join" /\ ev.ms = 0 /\ ev.calls = <<>>) => ev.ret = "throw"

Moves == {"move_ctor", "move_assign"}

\* What holds of every move: no system call is made, the transferred child
\* is as it was, and the moved-from handle has get_id() 0 and is not running.
MoveFrame ==
    /\ ev.calls = <<>>
    /\ ev.own # 0 => child[ev.own] = ev.was
    /\ get_id(ev.src) = 0
    /\ ~is_running_of(child_pid[ev.src], child, child_of[ev.src]).ret

\* C5 as stated: after every move construction and move assignment, the
\* assignment of a handle to itself included, the moved-to handle holds the
\* PID the source held and the moved-from handle is Empty; no signal, no wait.
C5_MoveTransfersPid ==
    ev.op \in Moves => MoveFrame /\ child_pid[ev.h] = ev.srcpre

\* C5 as amended: that holds of a move between two distinct handles; the
\* assignment of a handle to itself leaves it Empty, whatever it held.
C5_MoveBetweenDistinct ==
    ev.op \in Moves =>
        /\ MoveFrame
        /\ ev.src # ev.h => child_pid[ev.h] = ev.srcpre
        /\ ev.src = ev.h => child_pid[ev.h] = Empty

\* A move assignment between two handles has handed over an executing child.
C5_Witness ==
    /\ ev.op = "move_assign" /\ ev.src # ev.h
    /\ ev.srcpre # Empty /\ child_pid[ev.h] = ev.srcpre
    /\ ev.was.st = "task"

\* C6: stop() on a handle whose child is executing sends SIGTERM to that child
\* and leaves the slot as it is; on an Empty handle it sends nothing; and
\* once the child the signal reached has terminated, is_running() returns
\* false (and empties the handle) rather than true.
C6_StopThenNotRunning ==
    /\ ev.op = "stop" =>
          /\ child_pid[ev.h] = Empty => Kills = {}
          /\ OwnSt(ev.h) \in Executing =>
                \E k \in Kills : k.mine /\ k.pid = child_pid[ev.h]
    /\ (ev.op = "is_running" /\ ev.ret = "true" /\ child_of[ev.h] # 0) =>
          ~(child[child_of[ev.h]].term /\ OwnSt(ev.h) \in Terminated)

\* C7: the destructor of a worker_process sends SIGTERM exactly when the
\* handle is not Empty and its child is executing at that moment.
C7_DtorSignalsOnlyRunningChild ==
    ev.op = "dtor" =>
        ((\E k \in Kills : k.st # "none")
            <=> (\E w \in Waits : w.mine /\ w.st \in Executing))

\* The operations on a handle in table C whose slot is Empty make no system
\* call and leave the table as it is.
EmptyHandleIsInert(C) ==
    /\ is_running_of(Empty, C, 0) = [ret |-> FALSE, slot |-> Empty, tbl |-> C, calls |-> <<>>]
    /\ stop_of(Empty, C, 0) = [tbl |-> C, calls |-> <<>>]
    /\ dtor_of(Empty, C, 0) = [tbl |-> C, calls |-> <<>>]

C9_StartSignalsOnlyRunningChild ==
    ev.op = "start" =>
        /\ \A k \in Kills : k.st # "none" => (k.mine /\ k.st \in Executing)
        /\ \A i, j \in 1..Len(ev.calls) :
              (ev.calls[i].fn = "kill" /\ ev.calls[j].fn = "fork") => i < j
        /\ ev.ret = "void" =>
              /\ \E f \in Calls : f.fn = "fork" /\ f.pid = child_pid[ev.h]
              /\ OwnSt(ev.h) \in Executing

\* C10: when reap_all() returns with zombies enabled, no terminated child
\* started through a handle, plain or daemon, is left unreaped.
C10_ReapAllLeavesNoZombie ==
    (ev.op = "reap_all" /\ zombies) => \A c \in Children : child[c].st # "zombie"

\* C11: ownership of a child PID is unique: no two live handles hold the
\* same non-empty PID.
C11_PidOwnershipUnique ==
    \A a, b \in Handles :
        (a # b /\ live[a] /\ live[b] /\ child_pid[a] # Empty)
            => child_pid[a] # child_pid[b]

\* ------------------------------------------------ claims on descriptors
\* The system calls of the descriptor operation that just returned.
FdCalls == {fev.calls[i] : i \in 1..Len(fev.calls)}
Closes  == {c \in FdCalls : c.fn = "close"}
Dups    == {c \in FdCalls : c.fn = "dup"}

\* C12: the slot of every live auto_fd is -1 or names a descriptor that is
\* open and that no other object holds, whatever was called before (set(i)
\* with i the value already held included); and no operation closes a
\* descriptor that is already closed.
C12_SlotIsOwnedOpenDescriptor ==
    /\ \A h \in fd_live :
          fd[h] # -1 =>
              /\ IsOpen(fdtab, fd[h])
              /\ \A g \in fd_live \ {h} : fd[g] # fd[h]
    /\ \A c \in Closes : c.open

\* C13: close() and the destructor of an auto_fd close the descriptor it
\* holds, which is then no longer open; and once every object is destroyed,
\* no descriptor that was handed to an object, and not released since, is
\* still open.
C13_DestroyedHandleClosed ==
    /\ (fev.op \in {"dtor", "close"} /\ fev.pre # -1) => ~IsOpen(fdtab, fev.pre)
    /\ (fd_live = {} /\ pipe_live = {}) => \A d \in given : ~IsOpen(fdtab, d)

\* The last object has been destroyed holding an open descriptor, which is
\* closed now, while a raw descriptor of the program stays open.
C13_Witness ==
    /\ fev.op = "dtor" /\ fd_live = {}
    /\ IsOpen(fev.was, fev.pre) /\ ~IsOpen(fdtab, fev.pre)
    /\ Loose # {}

\* C14: release() returns the value the slot held and leaves the slot at -1
\* (bool false) without a system call: the table is as it was, and neither
\* close() nor the destructor of the emptied object closes anything. And
\* set(release()) leaves the object with the value it held, the table as it
\* was: a descriptor that was open is still open.
C14_ReleaseKeepsOpen ==
    /\ fev.op = "release" =>
          /\ fev.ret = fev.pre
          /\ fd[fev.h] = -1 /\ ~fd_bool(fd[fev.h])
          /\ fev.calls = <<>> /\ fdtab = fev.was
          /\ close_of(fd[fev.h], fdtab) = [slot |-> -1, tbl |-> fdtab, calls |-> <<>>]
    /\ fev.op = "set_release" =>
          /\ fd[fev.h] = fev.pre /\ fev.ret = fev.pre
          /\ fev.calls = <<>> /\ fdtab = fev.was
          /\ fev.pre # -1 => fd_bool(fd[fev.h])

\* release() has returned an open descriptor, which is still open and is
\* now a raw descriptor of the program.
C14_Witness ==
    /\ fev.op = "release" /\ fev.ret # -1
    /\ IsOpen(fdtab, fev.ret) /\ fev.ret \in Loose

Copies == {"copy_ctor", "copy_assign"}

\* C15: a copy construction or copy assignment of an auto_fd, the assignment
\* of an object to itself included, leaves the source as it was, holding its
\* descriptor, still open. The target is empty when the source was empty or
\* dup() failed; otherwise it holds a descriptor newly allocated, different
\* from the source's, that names the same open file description. A copy
\* assignment closes the descriptor the target held before. Closing the
\* source or the copy leaves the other open.
C15_CopyDuplicates ==
    fev.op \in Copies =>
        /\ fd[fev.src] = fev.srcpre
        /\ IsOpen(fev.was, fev.srcpre) => fdtab[fev.srcpre] = fev.was[fev.srcpre]
        /\ IF fev.srcpre = -1 \/ \E c \in Dups : c.ret = -1
           THEN fd[fev.h] = -1
           ELSE /\ fd[fev.h] # -1 /\ fd[fev.h] # fev.srcpre
                /\ ~IsOpen(fev.was, fd[fev.h])
                /\ fdtab[fd[fev.h]] = fev.was[fev.srcpre]
                /\ IsOpen(close_of(fd[fev.h], fdtab).tbl, fev.srcpre)
                /\ IsOpen(close_of(fev.srcpre, fdtab).tbl, fd[fev.h])
        /\ (fev.op = "copy_assign" /\ fev.pre # -1) =>
              /\ \E c \in Closes : c.fd = fev.pre
              /\ ~IsOpen(fdtab, fev.pre)

FdMoves == {"move_ctor", "move_assign"}

\* C16: after a move construction or move assignment of an auto_fd the target
\* holds the number the source held, which is open as it was, and the source
\* is empty; a move assignment closes the descriptor the target held before,
\* and no other descriptor is opened or closed. An object move-assigned to
\* itself holds the descriptor it held, the table as it was.
C16_MoveTransfers ==
    fev.op \in FdMoves =>
        /\ fd[fev.h] = fev.srcpre
        /\ IsOpen(fev.was, fev.srcpre) => fdtab[fev.srcpre] = fev.was[fev.srcpre]
        /\ \A d \in DOMAIN fdtab : d # fev.pre => fdtab[d] = fev.was[d]
        /\ IF fev.src = fev.h
           THEN fev.calls = <<>> /\ fdtab = fev.was
           ELSE /\ fd[fev.src] = -1
                /\ IF fev.op = "move_assign" /\ fev.pre # -1
                   THEN /\ Closes = {FdCall("close", fev.was, fev.pre, 0)}
                        /\ Dups = {}
                        /\ ~IsOpen(fdtab, fev.pre)
                   ELSE fev.calls = <<>>

\* The tables a second close() may find: the one the first close() left, and
\* that one after another open() has taken the lowest free number.
TablesAfterClose == {fdtab, sys_open(fdtab)}

\* C17: a second close() directly after a close() makes no system call and
\* leaves the object as it is, empty, also when the number the first close()
\* closed has been taken by another open() meanwhile: of auto_fd::close()
\* (called here on the members of a pipe by close_rfd() and close_wfd()) and
\* of auto_pipe::close().
C17_CloseIdempotent ==
    \A T \in TablesAfterClose :
        /\ fev.op = "close_rfd" =>
              close_of(read_fd[fev.h], T) = [slot |-> -1, tbl |-> T, calls |-> <<>>]
        /\ fev.op = "close_wfd" =>
              close_of(write_fd[fev.h], T) = [slot |-> -1, tbl |-> T, calls |-> <<>>]
        /\ fev.op = "pipe_close" =>
              pipe_close_of(read_fd[fev.h], write_fd[fev.h], T)
                  = [r |-> -1, w |-> -1, tbl |-> T, calls |-> <<>>]

\* close() has closed both ends of a pipe, and the next open() takes the
\* number its read end had.
C17_Witness ==
    /\ fev.op = "pipe_close"
    /\ fev.ppre[1] # -1 /\ fev.ppre[2] # -1
    /\ Len(fev.calls) = 2
    /\ sys_open_ret(fdtab) = fev.ppre[1]

PipeMoves == {"pipe_move_ctor", "pipe_move_assign"}

\* What C18 says of the boolean conversion and of the three close operations:
\* a pipe is true exactly when get_rfd() or get_wfd() is not -1; close_rfd()
\* empties the read end and leaves the write end, close_wfd() the reverse;
\* after close() both are -1 and the pipe is false.
PipeBoolAndClose ==
    /\ \A p \in pipe_live :
          pipe_bool(read_fd[p], write_fd[p]) <=> (get_rfd(p) # -1 \/ get_wfd(p) # -1)
    /\ fev.op = "close_rfd" =>
          get_rfd(fev.h) = -1 /\ get_wfd(fev.h) = fev.ppre[2]
    /\ fev.op = "close_wfd" =>
          get_wfd(fev.h) = -1 /\ get_rfd(fev.h) = fev.ppre[1]
    /\ fev.op = "pipe_close" =>
          /\ get_rfd(fev.h) = -1 /\ get_wfd(fev.h) = -1
          /\ ~pipe_bool(read_fd[fev.h], write_fd[fev.h])

\* C18 as stated: that, and after every move the moved-from pipe is false and
\* the moved-to pipe holds both descriptors the source held.
C18_PipeBoolAndEnds ==
    /\ PipeBoolAndClose
    /\ fev.op \in PipeMoves =>
          /\ ~pipe_bool(read_fd[fev.src], write_fd[fev.src])
          /\ <<get_rfd(fev.h), get_wfd(fev.h)>> = fev.psrc

\* C18 as amended: after every move the moved-to pipe holds both descriptors
\* the source held; the moved-from pipe is false when it is another object,
\* and a pipe move-assigned to itself keeps both ends and its truth value.
C18_PipeMovedFromOther ==
    /\ PipeBoolAndClose
    /\ fev.op \in PipeMoves =>
          /\ <<get_rfd(fev.h), get_wfd(fev.h)>> = fev.psrc
          /\ fev.src # fev.h => ~pipe_bool(read_fd[fev.src], write_fd[fev.src])
          /\ fev.src = fev.h =>
                (pipe_bool(read_fd[fev.h], write_fd[fev.h])
                    <=> pipe_bool(fev.psrc[1], fev.psrc[2]))

\* close_rfd() has emptied the read end of a pipe that held both ends: the
\* write end is as it was and the pipe is still true.
C18_Witness ==
    /\ fev.op = "close_rfd"
    /\ fev.ppre[1] # -1 /\ fev.ppre[2] # -1
    /\ get_rfd(fev.h) = -1 /\ get_wfd(fev.h) = fev.ppre[2]
    /\ pipe_bool(read_fd[fev.h], write_fd[fev.h])

PipeCopies == {"pipe_copy_ctor", "pipe_copy_assign"}

\* The target's end t is a fresh dup of the source's end s: a descriptor
\* dup(s) returned in this operation, different from s, open, naming the open
\* file description s names, and held by no other pipe; or it is empty when
\* the source's end is.
FreshDupOf(t, s) ==
    IF s = -1 THEN t = -1
    ELSE /\ t # -1 /\ t # s
         /\ \E c \in Dups : c.fd = s /\ c.ret = t
         /\ IsOpen(fdtab, t) /\ fdtab[t] = fev.was[s]
         /\ \A q \in pipe_live \ {fev.h} : t \notin {read_fd[q], write_fd[q]}

\* C19: copy construction and copy assignment of an auto_pipe do the same:
\* the source is as it was, both ends still open; each end of the target is
\* a fresh dup of the source's end, or empty when the source's end is empty,
\* so the copy of a pipe with one end closed is still true; and the copy
\* assignment closes the ends the target held before.
C19_PipeCopiesAgree ==
    fev.op \in PipeCopies =>
        /\ <<read_fd[fev.src], write_fd[fev.src]>> = fev.psrc
        /\ \A e \in 1..2 :
              IsOpen(fev.was, fev.psrc[e]) => fdtab[fev.psrc[e]] = fev.was[fev.psrc[e]]
        /\ FreshDupOf(read_fd[fev.h], fev.psrc[1])
        /\ FreshDupOf(write_fd[fev.h], fev.psrc[2])
        /\ read_fd[fev.h] # -1 => read_fd[fev.h] # write_fd[fev.h]
        /\ pipe_bool(read_fd[fev.h], write_fd[fev.h]) <=> pipe_bool(fev.psrc[1], fev.psrc[2])
        /\ \A e \in 1..2 :
              fev.ppre[e] # -1 => \E c \in Closes : c.fd = fev.ppre[e] /\ c.open

\* ------------------------------------------- claims on the pipe across fork
\* Sequence a is the beginning of sequence b.
IsPrefix(a, b) == Len(a) <= Len(b) /\ a = SubSeq(b, 1, Len(a))

\* C20: with a pipe shared by the parent and the forked child, the child's
\* write to the write end of its copy succeeds; the parent reads the bytes
\* the child wrote, in the order written; a read of the parent returns 0
\* only after it has read them all, and only once no descriptor of either
\* process (the original, the inherited one, the copy) names the write end.
C20_PipeAcrossFork ==
    /\ IsPrefix(io.rcvd, io.sent) /\ IsPrefix(io.sent, Msg)
    /\ pc.child \in {"exit", "exited"} => io.sent = Msg
    /\ io.eof => io.rcvd = Msg /\ NoWriter

\* The parent has read all the bytes in several reads, then the end of file,
\* and has waited for the child.
C20_Witness ==
    /\ pc.parent = "done" /\ pc.child = "exited"
    /\ io.eof /\ io.rcvd = Msg /\ Len(Msg) > MaxRead

\* The calls of the dynamic linker of the module operation that just returned.
DlCalls == {mev.calls[i] : i \in 1..Len(mev.calls)}
DlCloses == {c \in DlCalls : c.fn = "dlclose"}
\* The live modsymbol objects that own library l.
Owners(l) == {m \in mod_live : handle[m] = l}

\* C21: every library handle load_modsymbol obtained is closed exactly once:
\* a library has as many references as live modsymbol objects own it, so it
\* is loaded while an owner lives and closed with the last one; no dlclose
\* names a handle that is not open; a move construction gives the new object
\* both pointers, leaves both of the source null and closes nothing; the
\* destructor closes the handle of its object once, and nothing when the
\* handle is null, as that of a moved-from object is.
C21_LibraryClosedOnce ==
    /\ \A l \in Libs : refs[l] = Cardinality(Owners(l))
    /\ \A c \in DlCloses : c.ret = 0
    /\ mev.op = "move_ctor" =>
          /\ handle[mev.src] = 0 /\ ptr[mev.src] = 0
          /\ handle[mev.m] = mev.hpre /\ ptr[mev.m] = mev.ppre
          /\ mev.calls = <<>> /\ refs = mev.rpre
    /\ mev.op = "dtor" =>
          IF mev.hpre = 0
          THEN mev.calls = <<>> /\ refs = mev.rpre
          ELSE /\ mev.calls = <<DlCall("dlclose", mev.hpre, 0)>>
               /\ refs = [mev.rpre EXCEPT ![mev.hpre] = @ - 1]

\* A library was loaded, its modsymbol moved, the moved-from source destroyed
\* while the library stayed loaded for the new owner.
C21_Witness ==
    /\ mev.op = "dtor" /\ mev.prev = "move_ctor"
    /\ mev.hpre = 0 /\ mev.calls = <<>>
    /\ \E l \in Libs : refs[l] = 1 /\ Cardinality(Owners(l)) = 1

\* C22: load_modsymbol either returns a modsymbol whose handle and symbol
\* pointer are both non-null, holding one more reference to the library, or
\* throws and leaves the reference counts as it found them: when dlopen
\* fails it calls nothing else, and when dlsym fails it closes the library it
\* opened before it throws.
C22_LoadAllOrNothing ==
    mev.op = "load" =>
        IF mev.what = ""
        THEN /\ mev.m \in mod_live
             /\ handle[mev.m] # 0 /\ ptr[mev.m] # 0
             /\ handle[mev.m] = mev.from
             /\ ptr[mev.m] = SymAddr(mev.from, mev.sym)
             /\ refs = [mev.rpre EXCEPT ![mev.from] = @ + 1]
             /\ DlCloses = {}
        ELSE /\ mev.m \notin mod_live
             /\ refs = mev.rpre
             /\ IF mev.calls[1].ret = 0
                THEN mev.what = "dlopen failed on" /\ Len(mev.calls) = 1
                ELSE /\ mev.what = "dlsym failed to find"
                     /\ Len(mev.calls) = 3
                     /\ mev.calls[2] = DlCall("dlsym", mev.calls[1].ret, 0)
                     /\ mev.calls[3] = DlCall("dlclose", mev.calls[1].ret, 0)

\* A library that another modsymbol keeps loaded was opened again for a symbol
\* it does not define, and closed again before the error was thrown.
C22_Witness ==
    /\ mev.op = "load" /\ mev.what = "dlsym failed to find"
    /\ mev.from \in Libs /\ mev.sym \notin Exports(mev.from)
    /\ mev.rpre[mev.from] = 1 /\ refs[mev.from] = 1

\* The operations of worker_process handles that neither release a child nor
\* change the SIGCHLD disposition, which stays SIG_DFL (zombies enabled), and
\* the steps of the children.
LeakNext ==
    \/ \E h \in Handles : worker_process_ctor(h)
    \/ \E h \in Handles : start(h)
    \/ \E t, s \in Handles : move_ctor(t, s)
    \/ \E t, s \in Handles : move_assign(t, s)
    \/ \E h \in Handles : is_running(h)
    \/ \E h \in Handles : join(h)
    \/ \E h \in Handles : join_wake(h)
    \/ \E h \in Handles : stop(h)
    \/ \E c \in Children : child_exit(c)
    \/ \E c \in Children : child_sigterm(c)

LeakSpec == Init /\ [][LeakNext]_vars

\* C23: with zombies enabled and no release, after any sequence of start,
\* move construction, move assignment, is_running, join and stop every child
\* that was started and has not been reaped has its PID in the slot of a live
\* handle, which can wait on it.
C23_NoLeakedChild ==
    \A c \in Children :
        child[c].st \in Exists =>
            \E h \in Handles :
                live[h] /\ child_of[h] = c /\ child_pid[h] = child[c].pid

\* join(): the sleep of delay_ms ends, the delay doubles, the loop condition
\* is evaluated again; followed for MaxJoinSleeps sleeps.
join_wake_long(h) ==
    /\ joiner = h /\ sleeps < MaxJoinSleeps
    /\ join_poll(h, next_delay(delay_ms), delay_ms)

\* A parent that starts children and joins them, while they run and exit and
\* the SIGCHLD disposition or reap_all() may reap them.
JoinNext ==
    \/ \E h \in Handles : worker_process_ctor(h)
    \/ \E h \in Handles : start(h)
    \/ \E h \in Handles : join(h)
    \/ \E h \in Handles : join_wake_long(h)
    \/ \E c \in Children : child_exit(c)
    \/ \E b \in BOOLEAN : enable_zombies(b)
    \/ reap_all

JoinSpec == Init /\ [][JoinNext]_vars

\* The delays of join(): the sleep in progress, the k-th of its join() with
\* k the sleeps completed before it, lasts min(10 * 2^k, 1000) ms; a sleep
\* that ended lasted between 10 and 1000 ms and no longer than the one that
\* follows it; and join() goes to sleep only from a poll of is_running(), one
\* waitpid on its PID, that returned true.
JoinDelays ==
    /\ joiner # 0 => delay_ms = Min(10 * 2^sleeps, 1000)
    /\ (ev.op = "join" /\ ev.ms # 0) => (ev.ms >= 10 /\ ev.ms <= 1000)
    /\ (ev.op = "join" /\ ev.ms # 0 /\ ev.ret = "sleeping") =>
          /\ ev.ms = Min(10 * 2^(sleeps - 1), 1000)
          /\ ev.ms <= delay_ms
    /\ (ev.op = "join" /\ ev.ret = "sleeping") =>
          /\ joiner = ev.h
          /\ Len(ev.calls) = 1 /\ ev.calls[1].fn = "waitpid"
          /\ ev.calls[1].pid = child_pid[ev.h]
          /\ is_running_of(child_pid[ev.h], child, child_of[ev.h]).ret
    /\ (ev.op = "join" /\ ev.ret = "return") => joiner = 0

\* C24: join() polls is_running() before every sleep and sleeps only while
\* it returns true; its k-th sleep lasts min(10 * 2^k, 1000) ms, never below
\* 10, never above 1000 and non-decreasing; and a join() on a handle whose
\* child has already terminated returns without sleeping: the first poll of
\* a join() sends it to sleep only if the child of its handle has not
\* terminated.
C24_JoinBackoff ==
    /\ JoinDelays
    /\ (ev.op = "join" /\ ev.ms = 0 /\ ev.ret = "sleeping") =>
          OwnSt(ev.h) \notin Terminated
====
